---- MODULE Spec2Model ----
(***************************************************************************)
(* Two-phase delivery acknowledgment over an append-only label store       *)
(* (internal/mail/delivery.go).  Labels are strings; the store keeps, per  *)
(* message, the list of labels in append order.  The producers             *)
(* DeliverySendLabels / DeliveryAckLabelSequence and the deriver           *)
(* ParseDeliveryLabels are modelled as operators on strings, including the *)
(* RFC 3339 formatting and parsing of the standard library they call.      *)
(***************************************************************************)
EXTENDS Integers, Sequences, FiniteSets, TLC

VARIABLES
    labels,     \* the message's labels in the store, in append order
    sent,       \* the sender has appended the send-phase labels
    ackStatus,  \* per acknowledger: "idle", "running", "crashed", "done"
    ackSeq,     \* per acknowledger: the sequence DeliveryAckLabelSequence returned
    ackPos,     \* per acknowledger: how many labels of ackSeq are appended
    ackArgs,    \* per acknowledger: the (identity, time) it acknowledges with
    lastRead,   \* the latest ParseDeliveryLabels read: its result and the
                \* number of labels the store held when it was taken
    owners,     \* who appended each label of labels, position by position
    attempts,   \* per acknowledger: how many sequences it has started
    failures,   \* appends the store has refused so far
    wanted,     \* wl-commons: the wanted table, a row or NoRow per wanted id
    completions,\* wl-commons: the completions table, a set of rows
    wlProc      \* per town: the gt wl command it runs and where it stands

ackVars == <<ackStatus, ackSeq, ackPos, ackArgs>>

\* the state of the wasteland commands (internal/cmd/wl.go)
wlVars == <<wanted, completions, wlProc>>

vars == <<labels, sent, ackStatus, ackSeq, ackPos, ackArgs, lastRead,
          owners, attempts, failures, wanted, completions, wlProc>>

-----------------------------------------------------------------------------
(* Bounds of the model *)

\* longest label list the store holds in SpecParse
MaxLabels == 3

\* sequences one acknowledger starts in SpecRetry: the first and the retries
MaxAttempts == 2

\* appends the store refuses in SpecLive
MaxFailures == 2

-----------------------------------------------------------------------------
(* Protocol constants *)

DeliveryStatePending == "pending"
DeliveryStateAcked == "acked"
DeliveryLabelPending == "delivery:pending"
DeliveryLabelAcked == "delivery:acked"
DeliveryLabelAckedByPrefix == "delivery-acked-by:"
DeliveryLabelAckedAtPrefix == "delivery-acked-at:"

-----------------------------------------------------------------------------
(* Strings *)

\* strings.HasPrefix
HasPrefix(s, p) == Len(s) >= Len(p) /\ SubSeq(s, 1, Len(p)) = p

\* strings.TrimPrefix
TrimPrefix(s, p) == IF HasPrefix(s, p) THEN SubSeq(s, Len(p) + 1, Len(s)) ELSE s

\* the byte at 1-based position i of s, "" past the end
CharAt(s, i) == IF i >= 1 /\ i <= Len(s) THEN SubSeq(s, i, i) ELSE ""

\* the rest of s from 1-based position i
From(s, i) == IF i <= Len(s) THEN SubSeq(s, i, Len(s)) ELSE ""

Digit(n) == SubSeq("0123456789", n + 1, n + 1)

IsDigit(c) == c \in {Digit(n) : n \in 0..9}

DigitVal(c) == CHOOSE n \in 0..9 : Digit(n) = c

Pad2(n) == Digit((n \div 10) % 10) \o Digit(n % 10)

Pad4(n) == Pad2(n \div 100) \o Pad2(n % 100)

\* the value of a string of digits (leading zeros allowed)
RECURSIVE Atoi(_)
Atoi(s) == IF s = "" THEN 0
           ELSE 10 * Atoi(SubSeq(s, 1, Len(s) - 1)) + DigitVal(CharAt(s, Len(s)))

AllDigits(s) == \A i \in 1..Len(s) : IsDigit(CharAt(s, i))

-----------------------------------------------------------------------------
(* time.Time: an instant (day since 1970-01-01, second of that day, both  *)
(* in UTC, and nanosecond) shown in a zone (offset east of UTC, seconds). *)
(* A *time.Time is such a record with nil = FALSE, or NilTime.            *)

NilTime == [nil |-> TRUE, day |-> 0, sod |-> 0, nsec |-> 0, off |-> 0]

Time(day, sod, nsec, off) ==
    [nil |-> FALSE, day |-> day, sod |-> sod, nsec |-> nsec, off |-> off]

\* Time.UTC: the same instant, shown in UTC
UTC(t) == [t EXCEPT !.off = 0]

\* Time.Equal: the same instant, whatever the zone
SameInstant(t, u) ==
    /\ ~t.nil /\ ~u.nil
    /\ t.day = u.day /\ t.sod = u.sod /\ t.nsec = u.nsec

\* days since 1970-01-01 of the proleptic Gregorian date y-m-d
DaysFromCivil(y, m, d) ==
    LET yy  == IF m <= 2 THEN y - 1 ELSE y
        era == yy \div 400
        yoe == yy - era * 400
        mp  == IF m > 2 THEN m - 3 ELSE m + 9
        doy == (153 * mp + 2) \div 5 + d - 1
        doe == yoe * 365 + yoe \div 4 - yoe \div 100 + doy
    IN  era * 146097 + doe - 719468

\* the proleptic Gregorian date of a day number
CivilFromDays(z) ==
    LET zz  == z + 719468
        era == zz \div 146097
        doe == zz - era * 146097
        yoe == (doe - doe \div 1460 + doe \div 36524 - doe \div 146096) \div 365
        doy == doe - (365 * yoe + yoe \div 4 - yoe \div 100)
        mp  == (5 * doy + 2) \div 153
        d   == doy - (153 * mp + 2) \div 5 + 1
        m   == IF mp < 10 THEN mp + 3 ELSE mp - 9
        y   == yoe + era * 400 + (IF m <= 2 THEN 1 ELSE 0)
    IN  [year |-> y, month |-> m, day |-> d]

IsLeap(y) == y % 4 = 0 /\ (y % 100 # 0 \/ y % 400 = 0)

DaysIn(m, y) ==
    IF m = 2 THEN (IF IsLeap(y) THEN 29 ELSE 28)
    ELSE IF m \in {4, 6, 9, 11} THEN 30 ELSE 31

\* Time.Format(time.RFC3339): "2006-01-02T15:04:05Z07:00" in the time's zone;
\* the layout has no fractional seconds, so the nanoseconds are dropped
FormatRFC3339(t) ==
    LET local == t.sod + t.off
        lday  == t.day + (local \div 86400)
        lsod  == local % 86400
        c     == CivilFromDays(lday)
        aoff  == IF t.off < 0 THEN -t.off ELSE t.off
        zone  == IF t.off = 0 THEN "Z"
                 ELSE (IF t.off < 0 THEN "-" ELSE "+")
                      \o Pad2(aoff \div 3600) \o ":" \o Pad2((aoff % 3600) \div 60)
    IN  Pad4(c.year) \o "-" \o Pad2(c.month) \o "-" \o Pad2(c.day) \o "T"
        \o Pad2(lsod \div 3600) \o ":" \o Pad2((lsod % 3600) \div 60) \o ":"
        \o Pad2(lsod % 60) \o zone

RECURSIVE Pow10(_)
Pow10(n) == IF n = 0 THEN 1 ELSE 10 * Pow10(n - 1)

\* the number of leading digits of s
RECURSIVE DigitRun(_)
DigitRun(s) == IF s # "" /\ IsDigit(CharAt(s, 1)) THEN 1 + DigitRun(From(s, 2)) ELSE 0

\* parseNanoseconds: the digits after the separator, at most nine of them kept
FracNanos(digits) ==
    LET kept == IF Len(digits) > 9 THEN SubSeq(digits, 1, 9) ELSE digits
    IN  Atoi(kept) * Pow10(9 - Len(kept))

\* time.Parse(time.RFC3339, ts): NilTime stands for a non-nil error.
\* Layout "2006-01-02T15:04:05Z07:00": a four digit year, two digit month and
\* day, the hour in one or two digits, two digit minute and second, an optional
\* fraction after '.' or ',', then 'Z' or a signed hh:mm offset, nothing after.
ParseRFC3339(ts) ==
    LET yearOk  == Len(ts) >= 4 /\ AllDigits(SubSeq(ts, 1, 4))
        year    == Atoi(SubSeq(ts, 1, 4))
        two(i)  == IsDigit(CharAt(ts, i)) /\ IsDigit(CharAt(ts, i + 1))
        num(i)  == Atoi(SubSeq(ts, i, i + 1))
        dateOk  == /\ CharAt(ts, 5) = "-" /\ two(6)
                   /\ CharAt(ts, 8) = "-" /\ two(9)
                   /\ CharAt(ts, 11) = "T"
        month   == num(6)
        day     == num(9)
        hourOk  == IsDigit(CharAt(ts, 12))
        hlen    == IF IsDigit(CharAt(ts, 13)) THEN 2 ELSE 1
        hour    == Atoi(SubSeq(ts, 12, 11 + hlen))
        mpos    == 12 + hlen
        clockOk == /\ CharAt(ts, mpos) = ":" /\ two(mpos + 1)
                   /\ CharAt(ts, mpos + 3) = ":" /\ two(mpos + 4)
        minute  == num(mpos + 1)
        second  == num(mpos + 4)
        rest    == From(ts, mpos + 6)
        hasFrac == /\ Len(rest) >= 2 /\ CharAt(rest, 1) \in {".", ","}
                   /\ IsDigit(CharAt(rest, 2))
        flen    == IF hasFrac THEN DigitRun(From(rest, 2)) ELSE 0
        nsec    == IF hasFrac THEN FracNanos(SubSeq(rest, 2, 1 + flen)) ELSE 0
        zone    == IF hasFrac THEN From(rest, 2 + flen) ELSE rest
        isZ     == CharAt(zone, 1) = "Z"
        zh      == Atoi(SubSeq(zone, 2, 3))
        zm      == Atoi(SubSeq(zone, 5, 6))
        offOk   == /\ Len(zone) >= 6 /\ CharAt(zone, 4) = ":"
                   /\ IsDigit(CharAt(zone, 2)) /\ IsDigit(CharAt(zone, 3))
                   /\ IsDigit(CharAt(zone, 5)) /\ IsDigit(CharAt(zone, 6))
                   /\ zh <= 24 /\ zm <= 60
                   /\ CharAt(zone, 1) \in {"+", "-"}
        off     == IF isZ THEN 0
                   ELSE IF CharAt(zone, 1) = "-" THEN -((zh * 60 + zm) * 60)
                   ELSE (zh * 60 + zm) * 60
        zoneOk  == IF isZ THEN Len(zone) = 1 ELSE offOk /\ Len(zone) = 6
        rangeOk == /\ month >= 1 /\ month <= 12
                   /\ hour < 24 /\ minute < 60 /\ second < 60
                   /\ day >= 1 /\ day <= DaysIn(month, year)
        secs    == hour * 3600 + minute * 60 + second - off
    IN  IF yearOk /\ dateOk /\ hourOk /\ clockOk /\ zoneOk /\ rangeOk
        THEN Time(DaysFromCivil(year, month, day) + (secs \div 86400),
                  secs % 86400, nsec, off)
        ELSE NilTime

-----------------------------------------------------------------------------
(* The producers and the deriver *)

\* a send phase that writes no label
SendLabelsNone == <<>>

\* DeliverySendLabels: the labels written during phase 1 (send)
DeliverySendLabels == <<DeliveryLabelPending>>

\* mutant: the acked marker is produced first, the metadata after it
AckSequenceMarkerFirst(recipientIdentity, at) ==
    << DeliveryLabelAcked,
       DeliveryLabelAckedByPrefix \o recipientIdentity,
       DeliveryLabelAckedAtPrefix \o FormatRFC3339(UTC(at)) >>

\* mutant: the acked marker is produced before the timestamp label
AckSequenceMarkerSecond(recipientIdentity, at) ==
    << DeliveryLabelAckedByPrefix \o recipientIdentity,
       DeliveryLabelAcked,
       DeliveryLabelAckedAtPrefix \o FormatRFC3339(UTC(at)) >>

\* mutant: the timestamp label is produced before the identity label
AckSequenceAtFirst(recipientIdentity, at) ==
    << DeliveryLabelAckedAtPrefix \o FormatRFC3339(UTC(at)),
       DeliveryLabelAckedByPrefix \o recipientIdentity,
       DeliveryLabelAcked >>

\* mutant: the time is formatted in its own zone, at.UTC() forgotten
AckSequenceLocalZone(recipientIdentity, at) ==
    << DeliveryLabelAckedByPrefix \o recipientIdentity,
       DeliveryLabelAckedAtPrefix \o FormatRFC3339(at),
       DeliveryLabelAcked >>

\* DeliveryAckLabelSequence: the labels of phase 2 (ack), in append order
DeliveryAckLabelSequence(recipientIdentity, at) ==
    LET ackedAt == FormatRFC3339(UTC(at))
    IN  << DeliveryLabelAckedByPrefix \o recipientIdentity,
           DeliveryLabelAckedAtPrefix \o ackedAt,
           DeliveryLabelAcked >>

\* the accumulator of the scan of ParseDeliveryLabels before the first label
ScanStart == [hasPending |-> FALSE, hasAcked |-> FALSE, ackedBy |-> "", ackedAt |-> NilTime]

\* mutant: the acked marker is matched by prefix instead of by equality
ScanLabelAckedByPrefix(acc, label) ==
    IF label = DeliveryLabelPending THEN [acc EXCEPT !.hasPending = TRUE]
    ELSE IF HasPrefix(label, DeliveryLabelAcked) THEN [acc EXCEPT !.hasAcked = TRUE]
    ELSE IF HasPrefix(label, DeliveryLabelAckedByPrefix)
         THEN [acc EXCEPT !.ackedBy = TrimPrefix(label, DeliveryLabelAckedByPrefix)]
    ELSE IF HasPrefix(label, DeliveryLabelAckedAtPrefix)
         THEN LET t == ParseRFC3339(TrimPrefix(label, DeliveryLabelAckedAtPrefix))
              IN  IF ~t.nil THEN [acc EXCEPT !.ackedAt = t] ELSE acc
    ELSE acc

\* mutant: the parse error is dropped and the zero time.Time stored on failure
ScanLabelIgnoresParseError(acc, label) ==
    IF label = DeliveryLabelPending THEN [acc EXCEPT !.hasPending = TRUE]
    ELSE IF label = DeliveryLabelAcked THEN [acc EXCEPT !.hasAcked = TRUE]
    ELSE IF HasPrefix(label, DeliveryLabelAckedByPrefix)
         THEN [acc EXCEPT !.ackedBy = TrimPrefix(label, DeliveryLabelAckedByPrefix)]
    ELSE IF HasPrefix(label, DeliveryLabelAckedAtPrefix)
         THEN LET t == ParseRFC3339(TrimPrefix(label, DeliveryLabelAckedAtPrefix))
              IN  IF ~t.nil THEN [acc EXCEPT !.ackedAt = t]
                  ELSE [acc EXCEPT !.ackedAt = Time(DaysFromCivil(1, 1, 1), 0, 0, 0)]
    ELSE acc

\* mutant: a keyed value is kept once set, so the first label seen wins
ScanLabelFirstWins(acc, label) ==
    IF label = DeliveryLabelPending THEN [acc EXCEPT !.hasPending = TRUE]
    ELSE IF label = DeliveryLabelAcked THEN [acc EXCEPT !.hasAcked = TRUE]
    ELSE IF HasPrefix(label, DeliveryLabelAckedByPrefix)
         THEN IF acc.ackedBy = ""
              THEN [acc EXCEPT !.ackedBy = TrimPrefix(label, DeliveryLabelAckedByPrefix)]
              ELSE acc
    ELSE IF HasPrefix(label, DeliveryLabelAckedAtPrefix)
         THEN LET t == ParseRFC3339(TrimPrefix(label, DeliveryLabelAckedAtPrefix))
              IN  IF ~t.nil /\ acc.ackedAt.nil THEN [acc EXCEPT !.ackedAt = t] ELSE acc
    ELSE acc

\* mutant: only a timestamp of the twenty characters ending in Z is accepted
ScanLabelZOnly(acc, label) ==
    IF label = DeliveryLabelPending THEN [acc EXCEPT !.hasPending = TRUE]
    ELSE IF label = DeliveryLabelAcked THEN [acc EXCEPT !.hasAcked = TRUE]
    ELSE IF HasPrefix(label, DeliveryLabelAckedByPrefix)
         THEN [acc EXCEPT !.ackedBy = TrimPrefix(label, DeliveryLabelAckedByPrefix)]
    ELSE IF HasPrefix(label, DeliveryLabelAckedAtPrefix)
         THEN LET ts == TrimPrefix(label, DeliveryLabelAckedAtPrefix)
                  t  == ParseRFC3339(ts)
              IN  IF ~t.nil /\ Len(ts) = 20 /\ CharAt(ts, 20) = "Z"
                  THEN [acc EXCEPT !.ackedAt = t] ELSE acc
    ELSE acc

\* mutant: the latest marker wins, delivery:pending retracts delivery:acked
ScanLabelPendingResets(acc, label) ==
    IF label = DeliveryLabelPending
    THEN [acc EXCEPT !.hasPending = TRUE, !.hasAcked = FALSE]
    ELSE IF label = DeliveryLabelAcked THEN [acc EXCEPT !.hasAcked = TRUE]
    ELSE IF HasPrefix(label, DeliveryLabelAckedByPrefix)
         THEN [acc EXCEPT !.ackedBy = TrimPrefix(label, DeliveryLabelAckedByPrefix)]
    ELSE IF HasPrefix(label, DeliveryLabelAckedAtPrefix)
         THEN LET t == ParseRFC3339(TrimPrefix(label, DeliveryLabelAckedAtPrefix))
              IN  IF ~t.nil THEN [acc EXCEPT !.ackedAt = t] ELSE acc
    ELSE acc

\* one iteration of the scan: the switch on the label
ScanLabel(acc, label) ==
    IF label = DeliveryLabelPending THEN [acc EXCEPT !.hasPending = TRUE]
    ELSE IF label = DeliveryLabelAcked THEN [acc EXCEPT !.hasAcked = TRUE]
    ELSE IF HasPrefix(label, DeliveryLabelAckedByPrefix)
         THEN [acc EXCEPT !.ackedBy = TrimPrefix(label, DeliveryLabelAckedByPrefix)]
    ELSE IF HasPrefix(label, DeliveryLabelAckedAtPrefix)
         THEN LET t == ParseRFC3339(TrimPrefix(label, DeliveryLabelAckedAtPrefix))
              IN  IF ~t.nil THEN [acc EXCEPT !.ackedAt = t] ELSE acc
    ELSE acc

\* the loop over the labels, first to last
RECURSIVE Scan(_)
Scan(ls) == IF ls = <<>> THEN ScanStart
            ELSE ScanLabel(Scan(SubSeq(ls, 1, Len(ls) - 1)), ls[Len(ls)])

Result(state, ackedBy, ackedAt) ==
    [state |-> state, ackedBy |-> ackedBy, ackedAt |-> ackedAt]

\* mutant: pending is tested before acked
DeriveStatePendingFirst(acc) ==
    IF acc.hasPending THEN Result(DeliveryStatePending, "", NilTime)
    ELSE IF acc.hasAcked THEN Result(DeliveryStateAcked, acc.ackedBy, acc.ackedAt)
    ELSE Result("", "", NilTime)

\* mutant: the pending return carries the scanned metadata
DeriveStatePendingWithMetadata(acc) ==
    IF acc.hasAcked THEN Result(DeliveryStateAcked, acc.ackedBy, acc.ackedAt)
    ELSE IF acc.hasPending THEN Result(DeliveryStatePending, acc.ackedBy, acc.ackedAt)
    ELSE Result("", "", NilTime)

\* mutant: the final return carries the scanned metadata
DeriveStateUnknownWithMetadata(acc) ==
    IF acc.hasAcked THEN Result(DeliveryStateAcked, acc.ackedBy, acc.ackedAt)
    ELSE IF acc.hasPending THEN Result(DeliveryStatePending, "", NilTime)
    ELSE Result("", acc.ackedBy, acc.ackedAt)

\* the returns after the loop
DeriveState(acc) ==
    IF acc.hasAcked THEN Result(DeliveryStateAcked, acc.ackedBy, acc.ackedAt)
    ELSE IF acc.hasPending THEN Result(DeliveryStatePending, "", NilTime)
    ELSE Result("", "", NilTime)

\* ParseDeliveryLabels: delivery state and ack metadata derived from labels
ParseDeliveryLabels(ls) == DeriveState(Scan(ls))

-----------------------------------------------------------------------------
(* The wasteland commands: gt wl claim and gt wl done *)

\* the outcome of queryWantedItem on the table w: an error when no row has
\* the id, the row otherwise
queryWantedItem(w, wantedID) ==
    IF w[wantedID].exists
    THEN [err |-> FALSE, item |-> w[wantedID]]
    ELSE [err |-> TRUE, item |-> w[wantedID]]

\* runWlClaim goes on to its UPDATE only for an item read as open
ClaimGuard(item) == item.status = "open"

\* an UPDATE that sets claimed_by and status on the row with the id, whatever
\* its status
ClaimUpdateUnguarded(w, townName, wantedID) ==
    [w EXCEPT ![wantedID] =
        IF @.exists
        THEN [@ EXCEPT !.claimed_by = townName, !.status = "claimed"]
        ELSE @]

\* UPDATE wanted SET claimed_by=townName, status='claimed'
\*   WHERE id=wantedID AND status='open'
ClaimUpdate(w, townName, wantedID) ==
    [w EXCEPT ![wantedID] =
        IF @.exists /\ @.status = "open"
        THEN [@ EXCEPT !.claimed_by = townName, !.status = "claimed"]
        ELSE @]

\* a guard of runWlDone that looks at the status alone
DoneGuardStatusOnly(item, townName) == item.status = "claimed"

\* runWlDone goes on to its INSERT and UPDATE only for an item read as claimed
\* by the caller's town
DoneGuard(item, townName) ==
    /\ item.status = "claimed"
    /\ item.claimed_by = townName

\* the row of INSERT INTO completions (the id is a hash of the other columns
\* and the time)
Completion(wantedID, townName, evidence) ==
    [wanted_id |-> wantedID, completed_by |-> townName, evidence |-> evidence]

\* UPDATE wanted SET status='in_review', evidence_url=evidence WHERE id=wantedID
DoneUpdate(w, wantedID, evidence) ==
    [w EXCEPT ![wantedID] =
        IF @.exists
        THEN [@ EXCEPT !.status = "in_review", !.evidence_url = evidence]
        ELSE @]

-----------------------------------------------------------------------------
(* Inputs *)

Ackers == {"A", "B"}

\* recipient identities: opaque strings, the empty one included
Identities == {"", "gastown/worker", "mayor"}

Days == { DaysFromCivil(2026, 2, 17), DaysFromCivil(2026, 2, 28),
          DaysFromCivil(2024, 2, 29), DaysFromCivil(1999, 12, 31) }

\* offsets east of UTC, in seconds: UTC, +02:00, -05:00
Zones == {0, 7200, -18000}

\* times handed to DeliveryAckLabelSequence: instants on a few days, at the
\* start, middle and last second of the day, with and without a sub-second
\* part, each shown in each zone
Times == { Time(d, s, n, z) : d \in Days, s \in {0, 43200, 86399},
                              n \in {0, 500000000}, z \in Zones }

\* labels a store may hold: the markers, keyed labels with well-formed and
\* malformed values (timestamps in UTC, with a numeric offset, with a fraction,
\* and not a timestamp at all), and labels outside the vocabulary
Vocabulary ==
    { DeliveryLabelPending, DeliveryLabelAcked,
      "delivery-acked-by:gastown/worker", "delivery-acked-by:mayor",
      "delivery-acked-by:",
      "delivery-acked-at:2026-02-17T12:00:00Z",
      "delivery-acked-at:2026-02-17T14:00:01+02:00",
      "delivery-acked-at:2026-02-17T12:00:00.5Z",
      "delivery-acked-at:not-a-date",
      "delivery:ackedx", "priority:high" }

\* town handles of the callers of gt wl
Towns == {"alpha", "beta"}

\* wanted ids given on the command line: one posted on the board, one not
WantedIDs == {"w-abc123", "w-missing"}

\* the wanted ids that have been posted on the board
Posted == {"w-abc123"}

\* a posted item nobody has claimed
OpenRow == [exists |-> TRUE, status |-> "open", claimed_by |-> "", evidence_url |-> ""]

\* the identity each concurrent acknowledger acknowledges with
AckerIdentity == [a \in Ackers |-> IF a = "A" THEN "gastown/worker" ELSE "mayor"]

\* the instants two concurrent acknowledgers acknowledge at
ConcTimes == { Time(DaysFromCivil(2026, 2, 17), 43200, 0, 0),
               Time(DaysFromCivil(2026, 2, 17), 50401, 500000000, 7200) }

\* the instants of an acknowledgment and of its retries
RetryTimes == ConcTimes \cup { Time(DaysFromCivil(2026, 2, 28), 86399, 0, -18000) }

\* no row of the wanted table has the id
NoRow == [exists |-> FALSE, status |-> "", claimed_by |-> "", evidence_url |-> ""]

\* the values of --evidence
Evidence == {"https://github.com/org/repo/pull/123"}

\* a town that has run no gt wl command yet
NoCommand ==
    [pc |-> "idle", cmd |-> "none", arg |-> "", evidence |-> "",
     item |-> NoRow, result |-> "none"]

-----------------------------------------------------------------------------
(* The store and its callers *)

NoArgs == [identity |-> "", at |-> NilTime]

NoRead == [taken |-> FALSE, n |-> 0, result |-> Result("", "", NilTime)]

Init ==
    /\ labels = <<>>
    /\ sent = FALSE
    /\ ackStatus = [a \in Ackers |-> "idle"]
    /\ ackSeq = [a \in Ackers |-> <<>>]
    /\ ackPos = [a \in Ackers |-> 0]
    /\ ackArgs = [a \in Ackers |-> NoArgs]
    /\ lastRead = NoRead
    /\ owners = <<>>
    /\ attempts = [a \in Ackers |-> 0]
    /\ failures = 0
    /\ wanted = [id \in WantedIDs |-> IF id \in Posted THEN OpenRow ELSE NoRow]
    /\ completions = {}
    /\ wlProc = [t \in Towns |-> NoCommand]

\* the sender stores the message with the send-phase labels
Send ==
    /\ ~sent
    /\ labels' = labels \o DeliverySendLabels
    /\ owners' = owners \o [i \in 1..Len(DeliverySendLabels) |-> "sender"]
    /\ sent' = TRUE
    /\ UNCHANGED <<ackVars, lastRead, attempts, failures, wlVars>>

\* acknowledger a calls the producer for identity r and time t
StartAck(a, r, t) ==
    /\ sent
    /\ ackStatus[a] = "idle"
    /\ ackStatus' = [ackStatus EXCEPT ![a] = "running"]
    /\ ackSeq' = [ackSeq EXCEPT ![a] = DeliveryAckLabelSequence(r, t)]
    /\ ackPos' = [ackPos EXCEPT ![a] = 0]
    /\ ackArgs' = [ackArgs EXCEPT ![a] = [identity |-> r, at |-> t]]
    /\ attempts' = [attempts EXCEPT ![a] = attempts[a] + 1]
    /\ UNCHANGED <<labels, owners, sent, lastRead, failures, wlVars>>

\* acknowledger a appends the next label of its sequence: one atomic append
AppendAck(a) ==
    /\ ackStatus[a] = "running"
    /\ ackPos[a] < Len(ackSeq[a])
    /\ labels' = Append(labels, ackSeq[a][ackPos[a] + 1])
    /\ owners' = Append(owners, a)
    /\ ackPos' = [ackPos EXCEPT ![a] = ackPos[a] + 1]
    /\ ackStatus' = [ackStatus EXCEPT
                       ![a] = IF ackPos[a] + 1 = Len(ackSeq[a]) THEN "done" ELSE "running"]
    /\ UNCHANGED <<sent, ackSeq, ackArgs, lastRead, attempts, failures, wlVars>>

\* acknowledger a crashes, or the store becomes unavailable to it, between
\* two appends
Crash(a) ==
    /\ ackStatus[a] = "running"
    /\ ackStatus' = [ackStatus EXCEPT ![a] = "crashed"]
    /\ UNCHANGED <<labels, owners, sent, ackSeq, ackPos, ackArgs, lastRead,
                   attempts, failures, wlVars>>

\* a reader derives the state from the labels the store holds now
Read ==
    /\ lastRead' = [taken |-> TRUE, n |-> Len(labels),
                    result |-> ParseDeliveryLabels(labels)]
    /\ UNCHANGED <<labels, owners, sent, ackVars, attempts, failures, wlVars>>

\* some caller appends an arbitrary label to the message
StoreAppend(l) ==
    /\ Len(labels) < MaxLabels
    /\ labels' = Append(labels, l)
    /\ owners' = Append(owners, "other")
    /\ UNCHANGED <<sent, ackVars, lastRead, attempts, failures, wlVars>>

\* acknowledger a retries after a crash: it derives a new sequence for the
\* same identity and the time of the retry, and appends it from its first label
Retry(a, t) ==
    /\ ackStatus[a] = "crashed"
    /\ attempts[a] < MaxAttempts
    /\ ackStatus' = [ackStatus EXCEPT ![a] = "running"]
    /\ ackSeq' = [ackSeq EXCEPT ![a] = DeliveryAckLabelSequence(ackArgs[a].identity, t)]
    /\ ackPos' = [ackPos EXCEPT ![a] = 0]
    /\ ackArgs' = [ackArgs EXCEPT ![a] = [identity |-> ackArgs[a].identity, at |-> t]]
    /\ attempts' = [attempts EXCEPT ![a] = attempts[a] + 1]
    /\ UNCHANGED <<labels, owners, sent, lastRead, failures, wlVars>>

\* the store refuses an append of acknowledger a, which keeps its place in the
\* sequence and tries the same label again
AppendFail(a) ==
    /\ ackStatus[a] = "running"
    /\ failures < MaxFailures
    /\ failures' = failures + 1
    /\ UNCHANGED <<labels, owners, sent, ackVars, lastRead, attempts, wlVars>>

\* the delivery state, which the wasteland commands leave alone
mailVars == <<labels, owners, sent, ackVars, lastRead, attempts, failures>>

\* town t runs gt wl claim id up to its read of the item: the command ends
\* with an error when the item is missing or not open
RunWlClaimQuery(t, id) ==
    /\ wlProc[t].pc = "idle"
    /\ LET q == queryWantedItem(wanted, id)
       IN  wlProc' = [wlProc EXCEPT ![t] =
              [pc |-> IF ~q.err /\ ClaimGuard(q.item) THEN "claim" ELSE "idle",
               cmd |-> "claim", arg |-> id, evidence |-> "", item |-> q.item,
               result |-> IF ~q.err /\ ClaimGuard(q.item) THEN "none" ELSE "error"]]
    /\ UNCHANGED <<wanted, completions, mailVars>>

\* town t's gt wl claim runs its UPDATE, which execWlSQL reports as a success
\* whatever the number of rows it changed, and prints Claimed
RunWlClaimExec(t) ==
    /\ wlProc[t].pc = "claim"
    /\ wanted' = ClaimUpdate(wanted, t, wlProc[t].arg)
    /\ wlProc' = [wlProc EXCEPT ![t].pc = "idle", ![t].result = "ok"]
    /\ UNCHANGED <<completions, mailVars>>

\* town t runs gt wl done id --evidence e up to its read of the item: the
\* command ends with an error unless the item is claimed by t
RunWlDoneQuery(t, id, e) ==
    /\ wlProc[t].pc = "idle"
    /\ LET q  == queryWantedItem(wanted, id)
           go == ~q.err /\ DoneGuard(q.item, t)
       IN  wlProc' = [wlProc EXCEPT ![t] =
              [pc |-> IF go THEN "done" ELSE "idle",
               cmd |-> "done", arg |-> id, evidence |-> e, item |-> q.item,
               result |-> IF go THEN "none" ELSE "error"]]
    /\ UNCHANGED <<wanted, completions, mailVars>>

\* town t's gt wl done runs its INSERT and its UPDATE
RunWlDoneExec(t) ==
    /\ wlProc[t].pc = "done"
    /\ completions' = completions \cup
          {Completion(wlProc[t].arg, t, wlProc[t].evidence)}
    /\ wanted' = DoneUpdate(wanted, wlProc[t].arg, wlProc[t].evidence)
    /\ wlProc' = [wlProc EXCEPT ![t].pc = "idle", ![t].result = "ok"]
    /\ UNCHANGED mailVars

\* a command of town t fails outside its guards: no workspace, no town
\* handle, no database, or dolt failing on the query, before anything is
\* written
RunWlEnvFail(t, c, id) ==
    /\ wlProc[t].pc = "idle"
    /\ wlProc' = [wlProc EXCEPT ![t] =
          [pc |-> "idle", cmd |-> c, arg |-> id, evidence |-> "",
           item |-> NoRow, result |-> "error"]]
    /\ UNCHANGED <<wanted, completions, mailVars>>

\* execWlSQL reports a failure of dolt to town t: the statements may have
\* been applied up to any point when dolt failed
RunWlExecFail(t) ==
    /\ wlProc[t].pc \in {"claim", "done"}
    /\ \/ UNCHANGED <<wanted, completions>>
       \/ /\ wlProc[t].pc = "claim"
          /\ wanted' = ClaimUpdate(wanted, t, wlProc[t].arg)
          /\ UNCHANGED completions
       \/ /\ wlProc[t].pc = "done"
          /\ completions' = completions \cup
                {Completion(wlProc[t].arg, t, wlProc[t].evidence)}
          /\ wanted' \in {wanted, DoneUpdate(wanted, wlProc[t].arg, wlProc[t].evidence)}
    /\ wlProc' = [wlProc EXCEPT ![t].pc = "idle", ![t].result = "error"]
    /\ UNCHANGED mailVars

\* one sender, one acknowledger that may crash between appends, and readers
Next ==
    \/ Send
    \/ \E r \in Identities, t \in Times : StartAck("A", r, t)
    \/ AppendAck("A")
    \/ Crash("A")
    \/ Read

Spec == Init /\ [][Next]_vars

\* a store that receives arbitrary labels in arbitrary order, and readers
NextParse ==
    \/ \E l \in Vocabulary : StoreAppend(l)
    \/ Read

SpecParse == Init /\ [][NextParse]_vars

\* one label of each kind the deriver tells apart, two where a duplicate of a
\* keyed prefix matters
CoreVocabulary ==
    { DeliveryLabelPending, DeliveryLabelAcked,
      "delivery-acked-by:gastown/worker", "delivery-acked-by:mayor",
      "delivery-acked-at:2026-02-17T12:00:00Z",
      "delivery-acked-at:2026-02-17T14:00:01+02:00",
      "delivery-acked-at:not-a-date",
      "priority:high" }

\* a store that receives labels of each kind in arbitrary order, and readers
NextOrder ==
    \/ \E l \in CoreVocabulary : StoreAppend(l)
    \/ Read

SpecOrder == Init /\ [][NextOrder]_vars

\* one sender and two acknowledgers whose appends interleave freely, each of
\* which may crash between appends, and readers
NextConc ==
    \/ Send
    \/ \E a \in Ackers, t \in ConcTimes : StartAck(a, AckerIdentity[a], t)
    \/ \E a \in Ackers : AppendAck(a)
    \/ \E a \in Ackers : Crash(a)
    \/ Read

SpecConc == Init /\ [][NextConc]_vars

\* one sender, one acknowledger that crashes between appends and retries
\* with a new time, and readers
NextRetry ==
    \/ Send
    \/ \E r \in Identities, t \in RetryTimes : StartAck("A", r, t)
    \/ AppendAck("A")
    \/ Crash("A")
    \/ \E t \in RetryTimes : Retry("A", t)
    \/ Read

SpecRetry == Init /\ [][NextRetry]_vars

\* the towns run gt wl claim and gt wl done on the shared wl-commons database,
\* one command per town at a time, their reads and writes interleaved
NextWl ==
    \/ \E t \in Towns, id \in WantedIDs : RunWlClaimQuery(t, id)
    \/ \E t \in Towns : RunWlClaimExec(t)
    \/ \E t \in Towns, id \in WantedIDs, e \in Evidence : RunWlDoneQuery(t, id, e)
    \/ \E t \in Towns : RunWlDoneExec(t)
    \/ \E t \in Towns, c \in {"claim", "done"}, id \in WantedIDs : RunWlEnvFail(t, c, id)
    \/ \E t \in Towns : RunWlExecFail(t)

SpecWl == Init /\ [][NextWl]_vars

\* a crash of acknowledger a that is followed by a retry
RecoverableCrash(a) ==
    /\ attempts[a] < MaxAttempts
    /\ Crash(a)

\* one sender, one acknowledger whose appends the store may refuse finitely
\* often and that crashes finitely often and retries, and readers; an
\* acknowledger that can append, or retry, eventually does
NextLive ==
    \/ Send
    \/ \E r \in Identities, t \in RetryTimes : StartAck("A", r, t)
    \/ AppendAck("A")
    \/ AppendFail("A")
    \/ RecoverableCrash("A")
    \/ \E t \in RetryTimes : Retry("A", t)
    \/ Read

SpecLive ==
    /\ Init /\ [][NextLive]_vars
    /\ WF_vars(AppendAck("A"))
    /\ WF_vars(\E t \in RetryTimes : Retry("A", t))

-----------------------------------------------------------------------------
(* Vocabulary of the properties *)

\* the labels the store held when the latest read was taken (labels are only
\* ever appended, so they are a prefix of the present ones)
Snapshot == SubSeq(labels, 1, lastRead.n)

Holds(ls, l) == \E i \in 1..Len(ls) : ls[i] = l

PendingResult == Result(DeliveryStatePending, "", NilTime)

UnknownResult == Result("", "", NilTime)

\* the instant of t in whole seconds, shown in UTC
TruncatedUTC(t) == Time(t.day, t.sod, 0, 0)

\* labels of the ack sequence that acknowledger A has appended so far
Appended == ackPos["A"]

-----------------------------------------------------------------------------
(* Properties of the ack phase, under Spec *)

\* C1: crash safety of the ack phase. With delivery:pending stored and one
\* acknowledger appending its sequence label by label, possibly crashing
\* between appends, the state derived after 0, 1 or 2 appends is exactly
\* (pending, "", nil), in the store as it stands and in every read taken then;
\* a derived state of acked means the third append, of delivery:acked, is done.
C1_CrashSafety ==
    /\ (sent /\ Appended < 3) => ParseDeliveryLabels(labels) = PendingResult
    /\ (lastRead.taken /\ lastRead.n \in 1..3) => lastRead.result = PendingResult
    /\ ParseDeliveryLabels(labels).state = DeliveryStateAcked
          => Appended = 3 /\ labels[Len(labels)] = DeliveryLabelAcked
    /\ (lastRead.taken /\ lastRead.result.state = DeliveryStateAcked)
          => lastRead.n = 4 /\ Appended = 3

\* C1 witness: the acknowledger crashed after two appends and a read taken
\* after the crash returned pending
C1_Witness ==
    /\ ackStatus["A"] = "crashed" /\ Appended = 2
    /\ lastRead.taken /\ lastRead.n = 3
    /\ lastRead.result.state = DeliveryStatePending

\* C2 as stated: a read that derives acked returns ackedBy = r and an ackedAt
\* that is present and is the instant t
C2_AckedAtEqualsT ==
    (lastRead.taken /\ lastRead.result.state = DeliveryStateAcked)
       => /\ lastRead.result.ackedBy = ackArgs["A"].identity
          /\ SameInstant(lastRead.result.ackedAt, ackArgs["A"].at)

\* C2, amended: a read that derives acked returns ackedBy = r and an ackedAt
\* that is present and is t in UTC truncated to whole seconds; acked is never
\* returned with the identity or the timestamp of the acknowledger missing
C2_MetadataBehindAcked ==
    /\ (lastRead.taken /\ lastRead.result.state = DeliveryStateAcked)
          => /\ lastRead.result.ackedBy = ackArgs["A"].identity
             /\ ~lastRead.result.ackedAt.nil
             /\ lastRead.result.ackedAt = TruncatedUTC(ackArgs["A"].at)
    /\ ParseDeliveryLabels(labels).state = DeliveryStateAcked
          => /\ ParseDeliveryLabels(labels).ackedBy = ackArgs["A"].identity
             /\ ParseDeliveryLabels(labels).ackedAt = TruncatedUTC(ackArgs["A"].at)

\* C2 witness: a read returned acked for a time with a sub-second part, shown
\* in a zone other than UTC
C2_Witness ==
    /\ lastRead.taken /\ lastRead.result.state = DeliveryStateAcked
    /\ ackArgs["A"].at.nsec # 0 /\ ackArgs["A"].at.off # 0
    /\ ackArgs["A"].identity = "gastown/worker"

\* the shape of a timestamp label value: YYYY-MM-DDTHH:MM:SSZ
IsUTCSecondsText(ts) ==
    /\ Len(ts) = 20
    /\ \A i \in {1, 2, 3, 4, 6, 7, 9, 10, 12, 13, 15, 16, 18, 19} : IsDigit(CharAt(ts, i))
    /\ CharAt(ts, 5) = "-" /\ CharAt(ts, 8) = "-" /\ CharAt(ts, 11) = "T"
    /\ CharAt(ts, 14) = ":" /\ CharAt(ts, 17) = ":" /\ CharAt(ts, 20) = "Z"

\* C5: the sequence the producer returned for (r, t) has exactly three labels:
\* delivery-acked-by:<r>, then delivery-acked-at:<t as UTC RFC 3339 text, which
\* reads back as the instant of t in whole seconds>, then exactly
\* delivery:acked; the marker is at neither of the first two positions.
C5_SequenceOrder ==
    ackStatus["A"] # "idle" =>
       LET seq == ackSeq["A"]
           r   == ackArgs["A"].identity
           t   == ackArgs["A"].at
           ts  == SubSeq(seq[2], Len(DeliveryLabelAckedAtPrefix) + 1, Len(seq[2]))
       IN  /\ Len(seq) = 3
           /\ seq[1] = DeliveryLabelAckedByPrefix \o r
           /\ HasPrefix(seq[2], DeliveryLabelAckedAtPrefix)
           /\ IsUTCSecondsText(ts)
           /\ ParseRFC3339(ts) = TruncatedUTC(t)
           /\ seq[3] = DeliveryLabelAcked
           /\ seq[1] # DeliveryLabelAcked /\ seq[2] # DeliveryLabelAcked

\* C5 witness: the producer was called with the empty identity and a time
\* shown west of UTC on the last second of a day
C5_Witness ==
    /\ ackStatus["A"] = "running" /\ Appended = 0
    /\ ackArgs["A"].identity = ""
    /\ ackArgs["A"].at.off < 0 /\ ackArgs["A"].at.sod = 86399

\* C6: round trip of producer and deriver. The state derived from the send
\* labels followed by the ack sequence for (r, t) is (acked, r, t in UTC in
\* whole seconds), for every identity, the empty one included, and the same
\* instant shown in another zone gives the same label sequence.
C6_RoundTrip ==
    ackStatus["A"] # "idle" =>
       LET r == ackArgs["A"].identity
           t == ackArgs["A"].at
       IN  /\ ParseDeliveryLabels(DeliverySendLabels \o ackSeq["A"])
                = Result(DeliveryStateAcked, r, TruncatedUTC(t))
           /\ ackStatus["A"] = "done"
                 => ParseDeliveryLabels(labels) = Result(DeliveryStateAcked, r, TruncatedUTC(t))
           /\ \A z \in Zones :
                 DeliveryAckLabelSequence(r, [t EXCEPT !.off = z]) = ackSeq["A"]

\* C6 witness: all three labels are appended and read back, for the empty
\* identity and a time with a sub-second part shown east of UTC
C6_Witness ==
    /\ ackStatus["A"] = "done"
    /\ ackArgs["A"].identity = ""
    /\ ackArgs["A"].at.off > 0 /\ ackArgs["A"].at.nsec # 0
    /\ lastRead.taken /\ lastRead.n = 4
    /\ lastRead.result.ackedBy = ""
    /\ lastRead.result.state = DeliveryStateAcked

-----------------------------------------------------------------------------
(* Properties of the deriver, under SpecParse *)

\* C3: monotonic no-downgrade. A label list that holds delivery:acked derives
\* acked whatever else it holds, in the store as it stands and in every read;
\* and once a read has returned acked, no append changes what the store
\* derives from acked and every later read returns acked.
C3_NoDowngrade ==
    /\ [](Holds(labels, DeliveryLabelAcked)
             => ParseDeliveryLabels(labels).state = DeliveryStateAcked)
    /\ []((lastRead.taken /\ Holds(Snapshot, DeliveryLabelAcked))
             => lastRead.result.state = DeliveryStateAcked)
    /\ [][(lastRead.taken /\ lastRead.result.state = DeliveryStateAcked)
             => /\ ParseDeliveryLabels(labels').state = DeliveryStateAcked
                /\ lastRead'.result.state = DeliveryStateAcked]_vars

\* C3 witness: a read returned acked for a list where delivery:pending and a
\* malformed timestamp label were appended after delivery:acked
C3_Witness ==
    /\ lastRead.taken /\ lastRead.n = 3
    /\ lastRead.result.state = DeliveryStateAcked
    /\ labels[1] = DeliveryLabelAcked
    /\ labels[2] = "delivery-acked-at:not-a-date"
    /\ labels[3] = DeliveryLabelPending

\* C4: pending precedence. A read of a list that holds delivery:pending and
\* not delivery:acked returns exactly (pending, "", nil), whatever
\* delivery-acked-by: and delivery-acked-at: labels the list holds.
C4_PendingPrecedence ==
    (/\ lastRead.taken
     /\ Holds(Snapshot, DeliveryLabelPending)
     /\ ~Holds(Snapshot, DeliveryLabelAcked))
       => lastRead.result = PendingResult

\* C4 witness: a read returned pending for a list that holds delivery:pending
\* and well-formed labels of both keyed prefixes
C4_Witness ==
    /\ lastRead.taken /\ lastRead.n = 3
    /\ Holds(Snapshot, DeliveryLabelPending)
    /\ Holds(Snapshot, "delivery-acked-by:gastown/worker")
    /\ Holds(Snapshot, "delivery-acked-at:2026-02-17T12:00:00Z")
    /\ lastRead.result.state = DeliveryStatePending

\* C7: absence. A read of a list that holds neither marker, the empty list
\* included, returns ("", "", nil).
C7_Absence ==
    (/\ lastRead.taken
     /\ ~Holds(Snapshot, DeliveryLabelPending)
     /\ ~Holds(Snapshot, DeliveryLabelAcked))
       => lastRead.result = UnknownResult

\* C7 witness: a read returned the unknown state for a list of a keyed
\* identity label, a keyed timestamp label and an unrecognized label
C7_Witness ==
    /\ lastRead.taken /\ lastRead.n = 3
    /\ Holds(Snapshot, "delivery-acked-by:mayor")
    /\ Holds(Snapshot, "delivery-acked-at:2026-02-17T12:00:00Z")
    /\ Holds(Snapshot, "priority:high")
    /\ lastRead.result.state = ""

\* a label of the vocabulary of the deriver: a marker or a keyed label
Recognized(l) ==
    \/ l = DeliveryLabelPending
    \/ l = DeliveryLabelAcked
    \/ HasPrefix(l, DeliveryLabelAckedByPrefix)
    \/ HasPrefix(l, DeliveryLabelAckedAtPrefix)

\* C8: the deriver is total and ignores unrecognized labels. Every read
\* returns one of the three states, and its result is the result on the list
\* with the labels removed that are neither a marker nor a keyed label.
C8_IgnoresUnrecognized ==
    lastRead.taken =>
       /\ lastRead.result.state \in {"", DeliveryStatePending, DeliveryStateAcked}
       /\ lastRead.result = ParseDeliveryLabels(SelectSeq(Snapshot, Recognized))

\* C8 witness: a read of a list that holds a label with a marker as a proper
\* prefix, a label outside the vocabulary, and delivery:pending
C8_Witness ==
    /\ lastRead.taken /\ lastRead.n = 3
    /\ Holds(Snapshot, "delivery:ackedx")
    /\ Holds(Snapshot, "priority:high")
    /\ Holds(Snapshot, DeliveryLabelPending)
    /\ lastRead.result.state = DeliveryStatePending

\* a delivery-acked-at: label whose value does not parse
MalformedAt(l) ==
    /\ HasPrefix(l, DeliveryLabelAckedAtPrefix)
    /\ ParseRFC3339(TrimPrefix(l, DeliveryLabelAckedAtPrefix)).nil

WellFormed(l) == ~MalformedAt(l)

\* C9: a malformed timestamp contributes nothing. A read returns what the
\* deriver returns on the list without its malformed delivery-acked-at:
\* labels; [delivery:acked, delivery-acked-at:not-a-date] derives acked with
\* ackedAt absent.
C9_MalformedTimestamp ==
    lastRead.taken =>
       /\ lastRead.result = ParseDeliveryLabels(SelectSeq(Snapshot, WellFormed))
       /\ Snapshot = <<DeliveryLabelAcked, "delivery-acked-at:not-a-date">>
             => lastRead.result = Result(DeliveryStateAcked, "", NilTime)

\* C9 witness: a read of an acked list where a malformed timestamp label
\* follows a well-formed one
C9_Witness ==
    /\ lastRead.taken /\ lastRead.n = 3
    /\ labels[1] = DeliveryLabelAcked
    /\ labels[2] = "delivery-acked-at:2026-02-17T12:00:00Z"
    /\ labels[3] = "delivery-acked-at:not-a-date"
    /\ ~lastRead.result.ackedAt.nil

\* the positions of ls whose label starts with prefix p
Keyed(ls, p) == { i \in 1..Len(ls) : HasPrefix(ls[i], p) }

Last(S) == CHOOSE i \in S : \A j \in S : j <= i

\* C10 as stated: for an acked list with several labels of a keyed prefix,
\* the reported value is the value of the last label of that prefix
C10_LastLabelWins ==
    (lastRead.taken /\ Holds(Snapshot, DeliveryLabelAcked)) =>
       LET by == Keyed(Snapshot, DeliveryLabelAckedByPrefix)
           at == Keyed(Snapshot, DeliveryLabelAckedAtPrefix)
       IN  /\ Cardinality(by) >= 2 =>
                lastRead.result.ackedBy
                   = TrimPrefix(Snapshot[Last(by)], DeliveryLabelAckedByPrefix)
           /\ Cardinality(at) >= 2 =>
                lastRead.result.ackedAt
                   = ParseRFC3339(TrimPrefix(Snapshot[Last(at)], DeliveryLabelAckedAtPrefix))

\* C10, amended: for an acked list with several labels of a keyed prefix, the
\* reported ackedBy is the value of the last delivery-acked-by: label, and the
\* reported ackedAt is the value of the last delivery-acked-at: label whose
\* value parses, absent when none parses; duplicates never fail the deriver.
C10_LastParsedLabelWins ==
    (lastRead.taken /\ Holds(Snapshot, DeliveryLabelAcked)) =>
       LET by == Keyed(Snapshot, DeliveryLabelAckedByPrefix)
           at == Keyed(Snapshot, DeliveryLabelAckedAtPrefix)
           ok == { i \in at : ~MalformedAt(Snapshot[i]) }
       IN  /\ lastRead.result.state = DeliveryStateAcked
           /\ Cardinality(by) >= 2 =>
                lastRead.result.ackedBy
                   = TrimPrefix(Snapshot[Last(by)], DeliveryLabelAckedByPrefix)
           /\ (Cardinality(at) >= 2 /\ ok # {}) =>
                lastRead.result.ackedAt
                   = ParseRFC3339(TrimPrefix(Snapshot[Last(ok)], DeliveryLabelAckedAtPrefix))
           /\ (Cardinality(at) >= 2 /\ ok = {}) => lastRead.result.ackedAt.nil

\* C10 witness: a read of an acked list with two well-formed timestamp labels
\* of different instants, the later label's reported
C10_Witness ==
    /\ lastRead.taken /\ lastRead.n = 3
    /\ labels[1] = "delivery-acked-at:2026-02-17T14:00:01+02:00"
    /\ labels[2] = "delivery-acked-at:2026-02-17T12:00:00Z"
    /\ labels[3] = DeliveryLabelAcked
    /\ lastRead.result.ackedAt = Time(DaysFromCivil(2026, 2, 17), 43200, 0, 0)

\* the value of the only delivery-acked-at: label of the list read
OnlyAtValue ==
    TrimPrefix(Snapshot[Last(Keyed(Snapshot, DeliveryLabelAckedAtPrefix))],
               DeliveryLabelAckedAtPrefix)

\* a read of a list that holds delivery:acked and one delivery-acked-at: label
ReadOfOneTimestamp ==
    /\ lastRead.taken
    /\ Holds(Snapshot, DeliveryLabelAcked)
    /\ Cardinality(Keyed(Snapshot, DeliveryLabelAckedAtPrefix)) = 1

\* C11 as stated: a timestamp value in any form other than YYYY-MM-DDTHH:MM:SSZ
\* is reported as an absent ackedAt
C11_OnlyUTCZAccepted ==
    (ReadOfOneTimestamp /\ ~IsUTCSecondsText(OnlyAtValue))
       => lastRead.result.ackedAt.nil

\* C11, amended: the deriver accepts what time.Parse accepts for RFC 3339.
\* The UTC form with a trailing Z is reported in UTC and formats back to the
\* value; a value with a numeric zone offset is reported as the instant it
\* denotes, in that zone; a value with fractional seconds is reported with the
\* fraction; a value that is no RFC 3339 timestamp is reported as absent.
C11_RFC3339Accepted ==
    ReadOfOneTimestamp =>
       LET v   == OnlyAtValue
           got == lastRead.result.ackedAt
           day == DaysFromCivil(2026, 2, 17)
       IN  /\ (IsUTCSecondsText(v) /\ ~got.nil)
                 => got.off = 0 /\ got.nsec = 0 /\ FormatRFC3339(got) = v
           /\ v = "2026-02-17T12:00:00Z" => got = Time(day, 43200, 0, 0)
           /\ v = "2026-02-17T14:00:01+02:00" => got = Time(day, 43201, 0, 7200)
           /\ v = "2026-02-17T12:00:00.5Z" => got = Time(day, 43200, 500000000, 0)
           /\ v = "not-a-date" => got.nil

\* C11 witness: a read of [delivery:acked, a timestamp label with the offset
\* +02:00] returned a present ackedAt
C11_Witness ==
    /\ lastRead.taken /\ lastRead.n = 2
    /\ labels[1] = DeliveryLabelAcked
    /\ labels[2] = "delivery-acked-at:2026-02-17T14:00:01+02:00"
    /\ ~lastRead.result.ackedAt.nil

\* the permutations of 1..n
Perms(n) == { f \in [1..n -> 1..n] : \A i, j \in 1..n : f[i] = f[j] => i = j }

Permuted(ls, f) == [i \in 1..Len(ls) |-> ls[f[i]]]

\* C12: order independence of the derived state. For a read of the list the
\* store holds, the deriver returns the same state on every permutation of the
\* list, and the same ackedBy and ackedAt too unless the list holds two or more
\* keyed labels of one prefix.
C12_OrderIndependence ==
    (lastRead.taken /\ lastRead.n = Len(labels)) =>
       \A f \in Perms(Len(labels)) :
          LET got == ParseDeliveryLabels(Permuted(labels, f))
          IN  /\ got.state = lastRead.result.state
              /\ (/\ Cardinality(Keyed(labels, DeliveryLabelAckedByPrefix)) <= 1
                  /\ Cardinality(Keyed(labels, DeliveryLabelAckedAtPrefix)) <= 1)
                    => got = lastRead.result

\* C12 witness: a read of a list where delivery:pending follows delivery:acked
\* and a timestamp label, whose reversal starts with delivery:pending
C12_Witness ==
    /\ lastRead.taken /\ lastRead.n = 3 /\ Len(labels) = 3
    /\ labels[1] = DeliveryLabelAcked
    /\ labels[2] = "delivery-acked-at:2026-02-17T12:00:00Z"
    /\ labels[3] = DeliveryLabelPending
    /\ lastRead.result.state = DeliveryStateAcked

-----------------------------------------------------------------------------
(* Properties of two concurrent acknowledgers, under SpecConc *)

\* the acknowledger that appended the last label of ls with the prefix p
PrefixOwner(ls, p) == owners[Last(Keyed(ls, p))]

\* the acknowledger that appended the last delivery:acked of ls
MarkerOwner(ls) == owners[Last({ i \in 1..Len(ls) : ls[i] = DeliveryLabelAcked })]

\* what a read reports when it reports the acknowledgment of acknowledger a
AckOf(a) == Result(DeliveryStateAcked, ackArgs[a].identity, TruncatedUTC(ackArgs[a].at))

BothDone == \A a \in Ackers : ackStatus[a] = "done"

\* C13 as stated: after both acknowledgers have finished, the derived state is
\* acked with the identity and the timestamp of the acknowledger whose
\* delivery:acked append came last
C13_LastAckedAppendWins ==
    BothDone => ParseDeliveryLabels(labels) = AckOf(MarkerOwner(labels))

\* C13, amended: after both acknowledgers have finished, the derived state is
\* acked, ackedBy is the identity of the acknowledger whose delivery-acked-by:
\* append came last and ackedAt is the timestamp, in UTC whole seconds, of the
\* acknowledger whose delivery-acked-at: append came last; the two are those of
\* the acknowledger whose delivery:acked came last when its two metadata
\* appends came last as well.
C13_LastMetadataAppendWins ==
    BothDone =>
       LET got == ParseDeliveryLabels(labels)
           by  == PrefixOwner(labels, DeliveryLabelAckedByPrefix)
           at  == PrefixOwner(labels, DeliveryLabelAckedAtPrefix)
       IN  /\ got.state = DeliveryStateAcked
           /\ got.ackedBy = ackArgs[by].identity
           /\ got.ackedAt = TruncatedUTC(ackArgs[at].at)
           /\ (by = MarkerOwner(labels) /\ at = MarkerOwner(labels))
                 => got = AckOf(MarkerOwner(labels))
           /\ (lastRead.taken /\ lastRead.n = Len(labels)) => lastRead.result = got

\* C13 witness: both acknowledgers have finished with different times, B
\* appended the last delivery:acked, A the last identity and timestamp labels,
\* and a read was taken of the whole list
C13_Witness ==
    /\ BothDone
    /\ ackArgs["A"].at # ackArgs["B"].at
    /\ MarkerOwner(labels) = "B"
    /\ PrefixOwner(labels, DeliveryLabelAckedByPrefix) = "A"
    /\ PrefixOwner(labels, DeliveryLabelAckedAtPrefix) = "A"
    /\ lastRead.taken /\ lastRead.n = Len(labels)

-----------------------------------------------------------------------------
(* The lifecycle of one message, under Spec *)

\* the place of a derived state in the lifecycle unknown -> pending -> acked
Rank(state) ==
    IF state = DeliveryStateAcked THEN 2
    ELSE IF state = DeliveryStatePending THEN 1 ELSE 0

\* C14: forward-only lifecycle. DeliverySendLabels() is exactly
\* [delivery:pending]; once the sender has appended it no derived state and no
\* read is unknown; and from one read to the next, and from one state of the
\* store to the next, the derived state never moves backwards in
\* unknown -> pending -> acked.
C14_ForwardOnly ==
    /\ [](DeliverySendLabels = <<"delivery:pending">>)
    /\ [](sent => ParseDeliveryLabels(labels).state # "")
    /\ []((lastRead.taken /\ lastRead.n >= 1) => lastRead.result.state # "")
    /\ [][/\ Rank(lastRead'.result.state) >= Rank(lastRead.result.state)
          /\ Rank(ParseDeliveryLabels(labels').state)
                >= Rank(ParseDeliveryLabels(labels).state)
          /\ lastRead.taken => lastRead'.taken]_vars

\* C14 witness: the acknowledger has finished and a read of the whole list
\* returned acked
C14_Witness ==
    /\ sent /\ ackStatus["A"] = "done"
    /\ lastRead.taken /\ lastRead.n = Len(labels)
    /\ lastRead.result.state = DeliveryStateAcked

-----------------------------------------------------------------------------
(* Properties of gt wl claim and gt wl done, under SpecWl *)

\* town t starts the command c on the wanted item id in this step, and the
\* command gets as far as its read of the item
Runs(t, c, id) ==
    /\ wlProc[t].pc = "idle"
    /\ wlProc'[t] # wlProc[t]
    /\ wlProc'[t].cmd = c /\ wlProc'[t].arg = id
    /\ wlProc'[t].item = wanted[id]

\* the command of town t ends in this step with an error and the two tables
\* as they were
Refused(t) ==
    /\ wlProc'[t].pc = "idle" /\ wlProc'[t].result = "error"
    /\ wanted' = wanted /\ completions' = completions

\* C15: gt wl claim requires an existing open item. A step gives a wanted row
\* a new claimed_by, or the status claimed, only when the row is open, and
\* then it is the UPDATE of a claim that read the item as open, which sets
\* claimed_by to that caller's town and status to claimed; a claim on a
\* missing item or on an item whose status is not open ends with an error
\* and leaves the tables unchanged; a row that is claimed or in review keeps
\* its claimed_by.
C15_ClaimNeedsOpen ==
    [][\A id \in WantedIDs :
         /\ (\/ wanted'[id].claimed_by # wanted[id].claimed_by
             \/ wanted'[id].status = "claimed" /\ wanted[id].status # "claimed")
               => /\ wanted[id].exists /\ wanted[id].status = "open"
                  /\ \E t \in Towns :
                        /\ wlProc[t].pc = "claim" /\ wlProc[t].arg = id
                        /\ wlProc[t].item.status = "open"
                        /\ wanted'[id] = [wanted[id] EXCEPT !.claimed_by = t,
                                                            !.status = "claimed"]
         /\ \A t \in Towns :
               (Runs(t, "claim", id) /\ (~wanted[id].exists \/ wanted[id].status # "open"))
                  => Refused(t)
         /\ wanted[id].status \in {"claimed", "in_review"}
               => wanted'[id].claimed_by = wanted[id].claimed_by]_vars

\* C15 witness: alpha has claimed w-abc123, and beta's later claim of it read
\* the status claimed and ended with an error, as did a claim of a missing item
C15_Witness ==
    /\ wanted["w-abc123"].status = "claimed"
    /\ wanted["w-abc123"].claimed_by = "alpha"
    /\ wlProc["alpha"].cmd = "claim" /\ wlProc["alpha"].result = "ok"
    /\ wlProc["beta"].cmd = "claim" /\ wlProc["beta"].arg = "w-abc123"
    /\ wlProc["beta"].item.status = "claimed" /\ wlProc["beta"].result = "error"

\* C16: gt wl done requires the item to be claimed by the caller's town. A
\* step adds a completion record, or moves a wanted row to in_review, only as
\* the write of a done of a town t that read the row as claimed by t, on a row
\* that is claimed by t, and the record names the item and t; a done on an
\* item that is missing, not claimed, or claimed by another town ends with an
\* error and leaves both tables unchanged; the status of a row only moves
\* open -> claimed -> in_review.
C16_DoneNeedsOwnClaim ==
    [][/\ \A id \in WantedIDs :
            /\ (\/ wanted'[id].status = "in_review" /\ wanted[id].status # "in_review"
                \/ \E c \in completions' \ completions : c.wanted_id = id)
                  => \E t \in Towns :
                        /\ wlProc[t].pc = "done" /\ wlProc[t].arg = id
                        /\ DoneGuard(wlProc[t].item, t)
                        /\ wanted[id].exists /\ wanted[id].status = "claimed"
                        /\ wanted[id].claimed_by = t
                        /\ wanted'[id].claimed_by = t
                        /\ completions' \subseteq completions \cup
                              {Completion(id, t, wlProc[t].evidence)}
            /\ \A t \in Towns :
                  (Runs(t, "done", id) /\ ~(/\ wanted[id].exists
                                            /\ wanted[id].status = "claimed"
                                            /\ wanted[id].claimed_by = t))
                     => Refused(t)
            /\ wanted'[id].status # wanted[id].status
                  => <<wanted[id].status, wanted'[id].status>>
                        \in {<<"open", "claimed">>, <<"claimed", "in_review">>}
            /\ wanted'[id].exists = wanted[id].exists
       /\ completions \subseteq completions']_vars

\* C16 witness: alpha claimed w-abc123 and completed it, the completion is
\* recorded, and beta's done on the item ended with an error
C16_Witness ==
    /\ wanted["w-abc123"].status = "in_review"
    /\ wanted["w-abc123"].claimed_by = "alpha"
    /\ wlProc["alpha"].cmd = "done" /\ wlProc["alpha"].result = "ok"
    /\ \E c \in completions : c.wanted_id = "w-abc123" /\ c.completed_by = "alpha"
    /\ wlProc["beta"].cmd = "done" /\ wlProc["beta"].arg = "w-abc123"
    /\ wlProc["beta"].item.claimed_by = "alpha" /\ wlProc["beta"].result = "error"

\* C20 as stated: under a race of two claims on one open item, every runWlClaim
\* that returned success (printed Claimed) is one after which the item's
\* claimed_by is that caller's town
C20_TruthfulClaim ==
    \A t \in Towns :
       (wlProc[t].cmd = "claim" /\ wlProc[t].result = "ok")
          => wanted[wlProc[t].arg].claimed_by = t

-----------------------------------------------------------------------------
(* Properties of a retried acknowledgment, under SpecRetry *)

\* the timestamp label the producer writes for the time t
AtLabel(t) == DeliveryLabelAckedAtPrefix \o FormatRFC3339(UTC(t))

-----------------------------------------------------------------------------
(* Reads during two concurrent acknowledgments, under SpecConc *)

\* acknowledger a had appended its delivery:acked when the latest read was taken
AckedBefore(a) ==
    \E i \in 1..lastRead.n : labels[i] = DeliveryLabelAcked /\ owners[i] = a

\* a read was taken that derived acked
ReadAcked == lastRead.taken /\ lastRead.result.state = DeliveryStateAcked

\* C18 as stated: every read whose derived state is acked returns the pair of
\* one single acknowledger, and of one that had appended its own delivery:acked
C18_PairOfOneAcknowledger ==
    ReadAcked =>
       \E a \in Ackers : lastRead.result = AckOf(a) /\ AckedBefore(a)

\* C18, amended: every read whose derived state is acked returns as ackedBy
\* the identity of the acknowledger whose delivery-acked-by: label was the last
\* one appended before the read, and as ackedAt the timestamp, in UTC whole
\* seconds, of the acknowledger whose delivery-acked-at: label was the last one
\* appended before the read; the pair is that of one acknowledger when the two
\* labels are of the same acknowledger, and it is that of an acknowledger that
\* had appended its delivery:acked when no other acknowledger had appended a
\* label before the read.
C18_PairOfLastMetadata ==
    ReadAcked =>
       LET by == PrefixOwner(Snapshot, DeliveryLabelAckedByPrefix)
           at == PrefixOwner(Snapshot, DeliveryLabelAckedAtPrefix)
       IN  /\ lastRead.result.ackedBy = ackArgs[by].identity
           /\ lastRead.result.ackedAt = TruncatedUTC(ackArgs[at].at)
           /\ by = at => lastRead.result = AckOf(by)
           /\ \A a \in Ackers :
                 (\A i \in 1..lastRead.n : owners[i] \in {"sender", a})
                    => lastRead.result = AckOf(a) /\ AckedBefore(a)

\* C18 witness: a read returned acked with the identity of B and the time of
\* A, another time than B's, when B had not appended its delivery:acked
C18_Witness ==
    /\ ReadAcked
    /\ PrefixOwner(Snapshot, DeliveryLabelAckedByPrefix) = "B"
    /\ PrefixOwner(Snapshot, DeliveryLabelAckedAtPrefix) = "A"
    /\ TruncatedUTC(ackArgs["A"].at) # TruncatedUTC(ackArgs["B"].at)
    /\ lastRead.result.ackedBy = ackArgs["B"].identity
    /\ lastRead.result.ackedAt = TruncatedUTC(ackArgs["A"].at)
    /\ ~AckedBefore("B")

-----------------------------------------------------------------------------
(* Progress of the acknowledgment, under SpecLive *)

\* C19: eventual acknowledgment. Once the acknowledger of a message that
\* holds delivery:pending has started, with every refused append tried again,
\* finitely many refusals and crashes, and appends that are eventually
\* accepted, the derived state becomes acked and is acked from then on, and a
\* read that follows a read of acked returns acked.
C19_EventuallyAcked ==
    /\ (sent /\ ackStatus["A"] # "idle")
          ~> [](ParseDeliveryLabels(labels).state = DeliveryStateAcked)
    /\ [][lastRead.result.state = DeliveryStateAcked
            => lastRead'.result.state = DeliveryStateAcked]_vars

\* C19 witness: the store refused an append, the acknowledger crashed and
\* retried, its sequence is complete and a read returned acked
C19_Witness ==
    /\ failures >= 1 /\ attempts["A"] = 2
    /\ ackStatus["A"] = "done"
    /\ lastRead.taken /\ lastRead.n = Len(labels)
    /\ lastRead.result.state = DeliveryStateAcked

====
